---- MODULE Spec2Model ----
(***************************************************************************)
(* JsonEditor (quickwit-ui): a read-only Monaco viewer that fits its       *)
(* container height to its content, capped at 800px.                       *)
(*                                                                         *)
(* Two revisions of the component are modelled:                            *)
(*   strategy "B"  src/quickwit-ui/src/components/JsonEditor.tsx           *)
(*                 (deferred getContentHeight() measurement, setTimeout)   *)
(*   strategy "A"  src/unnamed/part_001 lines 114-165                      *)
(*                 (synchronous 18.81 * lineCount estimate)                *)
(*                                                                         *)
(* Heights written to the style are kept in hundredths of a pixel so that  *)
(* 18.81 * L is an exact integer (1881 * L).                               *)
(***************************************************************************)
EXTENDS Integers, Sequences, FiniteSets

\* ----------------------------------------------------------------- bounds
MaxInstances == 2
MaxKeys == 41
MaxContentHeight == 7000

\* ------------------------------------------------------ program constants
MaxHeight == 800
LineHeightHundredths == 1881
Scale == 100

Instances == 1..MaxInstances

Strategies == {"A", "B"}

\* content is a flat JSON object with n scalar members: {} is one line,
\* MaxKeys members make a document whose line estimate exceeds the cap
Contents == {0, MaxKeys}

\* values getContentHeight() may report, in pixels
ContentHeights == {19, MaxContentHeight}

EDITOR_THEME == "EDITOR_THEME"

ThemeNames == {"vs", "quickwit-light"}

VARIABLES strategy, phase, content, resizeOnMount, domNode,
          mountHeight, heightAtFire, style, timer, log, themes

\* mountHeight and heightAtFire are history variables: what getContentHeight()
\* reported when the timer was scheduled and when its callback ran.  log is
\* the per-editor trace of calls made by the component, in program order.

vars == <<strategy, phase, content, resizeOnMount, domNode,
          mountHeight, heightAtFire, style, timer, log, themes>>

Min(a, b) == IF a <= b THEN a ELSE b

\* Number of lines of JSON.stringify(content, null, 2) for a flat object of
\* n members: "{}" when empty, otherwise one line per member plus the braces.
LineCount(n) == IF n = 0 THEN 1 ELSE n + 2

\* `${height}px`
Px(hundredths) == [value |-> hundredths, unit |-> "px"]

DefaultStyle == [value |-> 0, unit |-> ""]

InitThemes == [n \in ThemeNames |-> IF n = "vs" THEN "builtin" ELSE "undefined"]

\* mutant: the Math.min(800, ..) clamp is dropped
TargetHeightAUncapped(lines) == LineHeightHundredths * lines

\* mutant: the line count is ignored and the cap is always applied
TargetHeightAFixed(lines) == MaxHeight * Scale

\* Strategy A: Math.min(800, 18.81 * lineCount), in hundredths of a pixel
TargetHeightA(lines) == Min(MaxHeight * Scale, LineHeightHundredths * lines)

\* Strategy B: Math.min(800, editor.getContentHeight()), in hundredths
TargetHeightB(h) == Min(MaxHeight, h) * Scale

\* monaco.editor.defineTheme(name, data): upsert into the global registry
DefineTheme(reg, name, data) == [reg EXCEPT ![name] = data]

\* editor.getContentHeight(): the widget's measurement at the time of the
\* call; it differs from call to call while the layout settles, and a disposed
\* editor may report anything
GetContentHeight(i) == ContentHeights

Ev(op, val) == <<op, val>>

Init ==
  /\ strategy \in Strategies
  /\ phase = [i \in Instances |-> "none"]
  /\ content = [i \in Instances |-> 0]
  /\ resizeOnMount = [i \in Instances |-> FALSE]
  /\ domNode = [i \in Instances |-> FALSE]
  /\ mountHeight = [i \in Instances |-> 0]
  /\ heightAtFire = [i \in Instances |-> 0]
  /\ style = [i \in Instances |-> DefaultStyle]
  /\ timer = [i \in Instances |-> "none"]
  /\ log = [i \in Instances |-> <<>>]
  /\ themes = InitThemes

\* The host renders <JsonEditor content=.. resizeOnMount=.. />
Render(i) ==
  /\ phase[i] = "none"
  /\ \E c \in Contents, r \in BOOLEAN :
       /\ content' = [content EXCEPT ![i] = c]
       /\ resizeOnMount' = [resizeOnMount EXCEPT ![i] = r]
  /\ phase' = [phase EXCEPT ![i] = "rendered"]
  /\ UNCHANGED <<strategy, domNode, mountHeight, heightAtFire,
                 style, timer, log, themes>>

\* mutant: defineTheme replaced by a toggle (a second call removes the theme)
BeforeMountToggle(i) ==
  /\ phase[i] = "rendered"
  /\ themes' = [themes EXCEPT !["quickwit-light"] =
                  IF @ = EDITOR_THEME THEN "undefined" ELSE EDITOR_THEME]
  /\ phase' = [phase EXCEPT ![i] = "themed"]
  /\ log' = [log EXCEPT ![i] = Append(@, Ev("defineTheme", 0))]
  /\ UNCHANGED <<strategy, content, resizeOnMount, domNode,
                 mountHeight, heightAtFire, style, timer>>

BeforeMount(i) ==
  /\ phase[i] = "rendered"
  /\ themes' = DefineTheme(themes, "quickwit-light", EDITOR_THEME)
  /\ phase' = [phase EXCEPT ![i] = "themed"]
  /\ log' = [log EXCEPT ![i] = Append(@, Ev("defineTheme", 0))]
  /\ UNCHANGED <<strategy, content, resizeOnMount, domNode,
                 mountHeight, heightAtFire, style, timer>>

\* The sizing step shared by the mutants below: the code after both guards
SizingStep(i) ==
  IF strategy = "A" THEN
    LET height == TargetHeightA(LineCount(content[i])) IN
    /\ style' = [style EXCEPT ![i] = Px(height)]
    /\ log' = [log EXCEPT ![i] =
                 @ \o <<Ev("onMount", 0), Ev("getDomNode", 1),
                        Ev("getLineCount", LineCount(content[i])),
                        Ev("setHeight", height), Ev("layout", 0),
                        Ev("return", 0)>>]
    /\ UNCHANGED <<timer, mountHeight>>
  ELSE
    /\ timer' = [timer EXCEPT ![i] = "pending"]
    /\ \E h \in GetContentHeight(i) : mountHeight' = [mountHeight EXCEPT ![i] = h]
    /\ log' = [log EXCEPT ![i] =
                 @ \o <<Ev("onMount", 0), Ev("getDomNode", 1),
                        Ev("setTimeout", 10), Ev("return", 0)>>]
    /\ UNCHANGED style

\* mutant: the `if (!resizeOnMount) return` guard is missing
OnMountBodyNoFlagGuard(i, node) ==
  IF ~node THEN
    /\ log' = [log EXCEPT ![i] =
                 @ \o <<Ev("onMount", 0), Ev("getDomNode", 0), Ev("return", 0)>>]
    /\ UNCHANGED <<style, timer, mountHeight>>
  ELSE SizingStep(i)

\* mutant: the `if (!editorElement) return` guard is missing; strategy A
\* dereferences null at once, strategy B schedules the timer regardless
OnMountBodyNoNullGuard(i, node) ==
  IF ~resizeOnMount[i] THEN
    /\ log' = [log EXCEPT ![i] = @ \o <<Ev("onMount", 0), Ev("return", 0)>>]
    /\ UNCHANGED <<style, timer, mountHeight>>
  ELSE IF ~node /\ strategy = "A" THEN
    /\ log' = [log EXCEPT ![i] =
                 @ \o <<Ev("onMount", 0), Ev("getDomNode", 0), Ev("throw", 0)>>]
    /\ UNCHANGED <<style, timer, mountHeight>>
  ELSE SizingStep(i)

\* mutant: strategy B measures and applies the height inside onMount
OnMountBodyImmediate(i, node) ==
  IF ~resizeOnMount[i] THEN
    /\ log' = [log EXCEPT ![i] = @ \o <<Ev("onMount", 0), Ev("return", 0)>>]
    /\ UNCHANGED <<style, timer, mountHeight>>
  ELSE IF ~node THEN
    /\ log' = [log EXCEPT ![i] =
                 @ \o <<Ev("onMount", 0), Ev("getDomNode", 0), Ev("return", 0)>>]
    /\ UNCHANGED <<style, timer, mountHeight>>
  ELSE IF strategy = "A" THEN SizingStep(i)
  ELSE
    \E h \in GetContentHeight(i) :
      LET height == TargetHeightB(h) IN
      /\ mountHeight' = [mountHeight EXCEPT ![i] = h]
      /\ style' = [style EXCEPT ![i] = Px(height)]
      /\ log' = [log EXCEPT ![i] =
                   @ \o <<Ev("onMount", 0), Ev("getDomNode", 1),
                          Ev("getContentHeight", h),
                          Ev("setHeight", height), Ev("layout", 0),
                          Ev("return", 0)>>]
      /\ UNCHANGED timer

\* The body of the onMount callback, given the editor's DOM node (or none)
OnMountBody(i, node) ==
  IF ~resizeOnMount[i] THEN
    /\ log' = [log EXCEPT ![i] = @ \o <<Ev("onMount", 0), Ev("return", 0)>>]
    /\ UNCHANGED <<style, timer, mountHeight>>
  ELSE IF ~node THEN
    /\ log' = [log EXCEPT ![i] =
                 @ \o <<Ev("onMount", 0), Ev("getDomNode", 0), Ev("return", 0)>>]
    /\ UNCHANGED <<style, timer, mountHeight>>
  ELSE IF strategy = "A" THEN
    LET height == TargetHeightA(LineCount(content[i])) IN
    /\ style' = [style EXCEPT ![i] = Px(height)]
    /\ log' = [log EXCEPT ![i] =
                 @ \o <<Ev("onMount", 0), Ev("getDomNode", 1),
                        Ev("getLineCount", LineCount(content[i])),
                        Ev("setHeight", height), Ev("layout", 0),
                        Ev("return", 0)>>]
    /\ UNCHANGED <<timer, mountHeight>>
  ELSE
    /\ timer' = [timer EXCEPT ![i] = "pending"]
    /\ \E h \in GetContentHeight(i) : mountHeight' = [mountHeight EXCEPT ![i] = h]
    /\ log' = [log EXCEPT ![i] =
                 @ \o <<Ev("onMount", 0), Ev("getDomNode", 1),
                        Ev("setTimeout", 10), Ev("return", 0)>>]
    /\ UNCHANGED style

\* The widget creates the editor and invokes onMount(editor) once
OnMount(i) ==
  /\ phase[i] = "themed"
  /\ \E node \in BOOLEAN :
       /\ domNode' = [domNode EXCEPT ![i] = node]
       /\ OnMountBody(i, node)
  /\ phase' = [phase EXCEPT ![i] = "mounted"]
  /\ UNCHANGED <<strategy, content, resizeOnMount, heightAtFire, themes>>

\* mutant: the callback uses a height measured when onMount ran
TimerFireStale(i) ==
  /\ timer[i] = "pending"
  /\ \E h \in GetContentHeight(i) :
       LET height == TargetHeightB(mountHeight[i]) IN
       /\ heightAtFire' = [heightAtFire EXCEPT ![i] = h]
       /\ style' = [style EXCEPT ![i] = Px(height)]
       /\ log' = [log EXCEPT ![i] =
                    @ \o <<Ev("timer", 0), Ev("setHeight", height),
                           Ev("layout", 0)>>]
  /\ timer' = [timer EXCEPT ![i] = "fired"]
  /\ UNCHANGED <<strategy, phase, content, resizeOnMount, domNode,
                 mountHeight, themes>>

\* mutant: setInterval instead of setTimeout (the timer stays armed, a
\* second run is allowed so that the state space stays finite)
TimerFireRepeating(i) ==
  /\ timer[i] = "pending"
  /\ Len(SelectSeq(log[i], LAMBDA e : e[1] = "timer")) < 2
  /\ \E h \in GetContentHeight(i) :
       LET height == TargetHeightB(h) IN
       /\ heightAtFire' = [heightAtFire EXCEPT ![i] = h]
       /\ style' = [style EXCEPT ![i] = Px(height)]
       /\ log' = [log EXCEPT ![i] =
                    @ \o <<Ev("timer", 0), Ev("getContentHeight", h),
                           Ev("setHeight", height), Ev("layout", 0)>>]
  /\ UNCHANGED <<strategy, phase, content, resizeOnMount, domNode,
                 mountHeight, themes, timer>>

\* The setTimeout callback of strategy B
TimerFire(i) ==
  /\ timer[i] = "pending"
  /\ \E h \in GetContentHeight(i) :
       LET height == TargetHeightB(h) IN
       /\ heightAtFire' = [heightAtFire EXCEPT ![i] = h]
       /\ style' = [style EXCEPT ![i] = Px(height)]
       /\ log' = [log EXCEPT ![i] =
                    @ \o <<Ev("timer", 0), Ev("getContentHeight", h),
                           Ev("setHeight", height), Ev("layout", 0)>>]
  /\ timer' = [timer EXCEPT ![i] = "fired"]
  /\ UNCHANGED <<strategy, phase, content, resizeOnMount, domNode,
                 mountHeight, themes>>

\* mutant: a cleanup that clears the pending timer on unmount
UnmountCancelling(i) ==
  /\ phase[i] = "mounted"
  /\ phase' = [phase EXCEPT ![i] = "disposed"]
  /\ timer' = [timer EXCEPT ![i] = IF @ = "pending" THEN "none" ELSE @]
  /\ log' = [log EXCEPT ![i] = Append(@, Ev("dispose", 0))]
  /\ UNCHANGED <<strategy, content, resizeOnMount, domNode, mountHeight,
                 heightAtFire, style, themes>>

\* The component unmounts; the widget disposes the editor.  The component
\* registers no cleanup, so a pending timer stays pending.
Unmount(i) ==
  /\ phase[i] = "mounted"
  /\ phase' = [phase EXCEPT ![i] = "disposed"]
  /\ log' = [log EXCEPT ![i] = Append(@, Ev("dispose", 0))]
  /\ UNCHANGED <<strategy, content, resizeOnMount, domNode, mountHeight,
                 heightAtFire, style, timer, themes>>

Next ==
  \E i \in Instances :
    \/ Render(i)
    \/ BeforeMount(i)
    \/ OnMount(i)
    \/ TimerFire(i)
    \/ Unmount(i)

Spec == Init /\ [][Next]_vars

\* The event loop runs every timer that was scheduled
FairSpec == Spec /\ \A i \in Instances : WF_vars(TimerFire(i))

\* --------------------------------------------------- reading the event log
Ops(i, ops) == {k \in DOMAIN log[i] : log[i][k][1] \in ops}

Count(i, op) == Cardinality(Ops(i, {op}))

Mounted(i) == phase[i] \in {"mounted", "disposed"}

Sizing(i) == Mounted(i) /\ resizeOnMount[i] /\ domNode[i]

ExpectedThemes ==
  [n \in ThemeNames |-> IF n = "quickwit-light" THEN EDITOR_THEME ELSE InitThemes[n]]

\* C1: strategy B, resizeOnMount and a DOM node: once the timer has fired the
\* container height is min(800, h) px, h being what getContentHeight()
\* returned when the timer fired.
C1_DeferredHeight ==
  \A i \in Instances :
    (strategy = "B" /\ Sizing(i) /\ timer[i] = "fired")
      => style[i] = Px(Min(MaxHeight, heightAtFire[i]) * Scale)

\* C1 witness: the timer fired on a live editor whose measured height had
\* changed since onMount scheduled it, and the height written is the later one.
C1_Witness ==
  \E i \in Instances :
    /\ strategy = "B" /\ Sizing(i) /\ timer[i] = "fired"
    /\ heightAtFire[i] = 19 /\ mountHeight[i] = MaxContentHeight
    /\ style[i] = Px(19 * Scale)
    /\ Count(i, "dispose") = 0

\* C2: every pixel height written to a container style, under either
\* strategy, is at most 800px.
C2_HeightCapped ==
  \A i \in Instances :
    /\ style[i] # DefaultStyle
         => (style[i].unit = "px" /\ style[i].value <= MaxHeight * Scale)
    /\ \A k \in Ops(i, {"setHeight"}) : log[i][k][2] <= MaxHeight * Scale

\* C2 witness: content whose estimate or measurement exceeds 800px has been
\* sized, and the height written is exactly the cap.
C2_Witness ==
  \E i \in Instances :
    /\ Sizing(i)
    /\ Count(i, "setHeight") = 1
    /\ \/ strategy = "A" /\ LineHeightHundredths * LineCount(content[i]) > MaxHeight * Scale
       \/ strategy = "B" /\ heightAtFire[i] > MaxHeight
    /\ style[i] = Px(MaxHeight * Scale)

\* C3: with resizeOnMount = false the component never writes the height,
\* never schedules a timer and never calls layout().
C3_NoResizeNoEffect ==
  \A i \in Instances :
    (phase[i] # "none" /\ ~resizeOnMount[i])
      => /\ style[i] = DefaultStyle
         /\ timer[i] = "none"
         /\ Ops(i, {"setHeight", "layout", "setTimeout", "timer"}) = {}

\* C3 witness: a large document mounted with resizeOnMount = false on a real
\* DOM node and later unmounted, still at the default height.
C3_Witness ==
  \E i \in Instances :
    /\ phase[i] = "disposed" /\ ~resizeOnMount[i] /\ domNode[i]
    /\ content[i] = MaxKeys
    /\ style[i] = DefaultStyle

\* C4: strategy B, unmounted before the timer fires: no error, no height
\* write and no layout() call happens after the editor was disposed.
C4_NoMutationAfterDispose ==
  \A i \in Instances :
    \A d \in Ops(i, {"dispose"}) :
      \A k \in Ops(i, {"setHeight", "layout", "throw"}) : k < d

\* C5: getDomNode() returned nothing (resizeOnMount = true): no height, no
\* timer, no layout(), no error, under either strategy.
C5_NoDomNodeNoEffect ==
  \A i \in Instances :
    (Mounted(i) /\ resizeOnMount[i] /\ ~domNode[i])
      => /\ style[i] = DefaultStyle
         /\ timer[i] = "none"
         /\ Ops(i, {"setHeight", "layout", "setTimeout", "timer", "throw"}) = {}

\* C5 witness: an instance with resizeOnMount = true whose editor had no DOM
\* node was mounted and unmounted without any effect.
C5_Witness ==
  \E i \in Instances :
    /\ phase[i] = "disposed" /\ resizeOnMount[i] /\ ~domNode[i]
    /\ style[i] = DefaultStyle
    /\ Count(i, "return") = 1

\* C6: strategy A, resizeOnMount and a DOM node: when onMount has returned
\* the height is min(800, 18.81 * L) px; for content {} it is the one-line
\* height 18.81px, not 800px.
C6_LineCountHeight ==
  \A i \in Instances :
    (strategy = "A" /\ Sizing(i))
      => /\ style[i] = Px(Min(MaxHeight * Scale,
                              LineHeightHundredths * LineCount(content[i])))
         /\ content[i] = 0 => style[i] = Px(LineHeightHundredths)
         /\ log[i][Len(log[i])][1] \in {"return", "dispose"}

\* C6 witness: under strategy A the empty object {} is mounted and sized to
\* one line while another instance is sized to the cap.
C6_Witness ==
  /\ strategy = "A"
  /\ \E i \in Instances :
       /\ phase[i] = "mounted" /\ Sizing(i) /\ content[i] = 0
       /\ style[i] = Px(LineHeightHundredths)
  /\ \E j \in Instances :
       /\ Sizing(j) /\ content[j] = MaxKeys
       /\ style[j] = Px(MaxHeight * Scale)

\* C7: after one or more beforeMount calls, from any instances in any
\* interleaving, the registry is what a single call leaves: 'quickwit-light'
\* maps to EDITOR_THEME and every other entry is untouched.
C7_ThemeUpsert ==
  (\E i \in Instances : Count(i, "defineTheme") >= 1) => themes = ExpectedThemes

\* C7 witness: two instances have both run beforeMount and are alive together.
C7_Witness ==
  /\ themes = ExpectedThemes
  /\ \E i, j \in Instances :
       /\ i # j
       /\ phase[i] \in {"themed", "mounted"} /\ phase[j] \in {"themed", "mounted"}
       /\ Count(i, "defineTheme") = 1 /\ Count(j, "defineTheme") = 1

\* C8: strategy B: a scheduled timer eventually fires, unmounting does not
\* cancel it, and the firing writes the captured container's height and
\* calls layout() on the captured editor.
C8_TimerStillFires ==
  /\ \A i \in Instances :
       (timer[i] = "pending")
         ~> (/\ timer[i] = "fired"
             /\ Count(i, "setHeight") = 1
             /\ Count(i, "layout") = 1
             /\ style[i] = Px(Min(MaxHeight, heightAtFire[i]) * Scale))
  /\ [][\A i \in Instances :
          (timer[i] = "pending" /\ phase[i] = "mounted" /\ phase'[i] = "disposed")
            => timer'[i] = "pending"]_vars

\* C8 witness: the timer fired after the editor was disposed and wrote the
\* height and called layout().
C8_Witness ==
  \E i \in Instances :
    /\ phase[i] = "disposed" /\ timer[i] = "fired"
    /\ \E d \in Ops(i, {"dispose"}) :
         /\ \A k \in Ops(i, {"timer", "setHeight", "layout"}) : d < k
         /\ Ops(i, {"setHeight"}) # {} /\ Ops(i, {"layout"}) # {}
    /\ style[i] # DefaultStyle

\* C9: strategy B: onMount itself writes no height and calls no layout();
\* the deferred step runs after onMount returned and does, in this order,
\* getContentHeight(), the height write, layout().
C9_DeferredOrder ==
  \A i \in Instances :
    strategy = "B" =>
      /\ \A k \in Ops(i, {"getContentHeight", "setHeight", "layout"}) :
           \E r \in Ops(i, {"return"}) : r < k
      /\ \A k \in Ops(i, {"setHeight"}) :
           /\ k > 1 /\ log[i][k - 1][1] = "getContentHeight"
           /\ k < Len(log[i]) /\ log[i][k + 1][1] = "layout"
      /\ \A k \in Ops(i, {"timer"}) :
           /\ k + 3 <= Len(log[i])
           /\ log[i][k + 1][1] = "getContentHeight"
           /\ log[i][k + 2][1] = "setHeight"
           /\ log[i][k + 3][1] = "layout"

\* C9 witness: under strategy B onMount returned with nothing written, and
\* the deferred step has since run.
C9_Witness ==
  \E i \in Instances :
    /\ strategy = "B" /\ timer[i] = "fired"
    /\ \E r \in Ops(i, {"return"}), g \in Ops(i, {"getContentHeight"}),
          w \in Ops(i, {"setHeight"}), l \in Ops(i, {"layout"}) :
         r < g /\ g < w /\ w < l

\* C10: per editor instance at most one height write, one layout() call and
\* one scheduled timer; layout() calls and height writes are equal in number.
C10_AtMostOnce ==
  \A i \in Instances :
    /\ Count(i, "setHeight") <= 1
    /\ Count(i, "layout") <= 1
    /\ Count(i, "layout") = Count(i, "setHeight")
    /\ Count(i, "setTimeout") <= 1
    /\ Count(i, "timer") <= Count(i, "setTimeout")
    /\ Count(i, "onMount") <= 1

\* C10 witness: an instance that was sized once, with one layout() call, has
\* lived its whole life.
C10_Witness ==
  \E i \in Instances :
    /\ phase[i] = "disposed"
    /\ Count(i, "setHeight") = 1 /\ Count(i, "layout") = 1
    /\ timer[i] # "pending"

====
